---------------------------- MODULE Spec2Model ----------------------------
(***************************************************************************)
(* A model of the AFL ELO rating programs:                                 *)
(*   scripts/afl_elo_training.py    (AFLEloModel, fetch_afl_data,          *)
(*                                   train_elo_model, parameter_tuning)    *)
(*   scripts/afl_elo_predictions.py (AFLEloPredictor, SimpleEloUpdater,    *)
(*                                   update_ratings_with_results,          *)
(*                                   predict_upcoming_matches)             *)
(*                                                                         *)
(* Floating point values are kept in fixed point:                          *)
(*   ratings and home advantage   in tenths of a rating point              *)
(*   probabilities                in 1/10000                               *)
(*   margin_factor                in tenths                                *)
(*   season_carryover             in hundredths                            *)
(*   margin multiplier, log-loss  in thousandths                           *)
(* The logistic curve and the logarithms are evaluated piecewise linearly  *)
(* between exact knots, with symmetric rounding.                           *)
(***************************************************************************)
EXTENDS Integers, Sequences, FiniteSets, TLC

VARIABLES
    script,         \* the entry point that runs: "train" (the training script),
                    \* "update" (update_ratings_with_results),
                    \* "predict" (predict_upcoming_matches)
    pc,             \* the place the running script has reached
    db,             \* the rows of the matches table, in storage order
    params,         \* the parameters handed to train_elo_model
    data,           \* the DataFrame a query returned
    idx,            \* the number of rows of the running loop already iterated
    prev_year,      \* train_elo_model's prev_year
    model,          \* the AFLEloModel under training
    model_file,     \* the model file at model_path
    predictor,      \* the AFLEloPredictor the running function constructed
    updater,        \* the SimpleEloUpdater of update_ratings_with_results
    updates_applied,
    all_predictions,
    raised,         \* the exception that left the running function, or "none"
    metrics,        \* what evaluate_model returned
    cv,             \* parameter_tuning's cv
    param_grid,     \* parameter_tuning's param_grid
    max_combinations,
    param_combinations,
    ci,             \* the number of combinations already evaluated
    folds,          \* what tscv.split(data) yields
    fi,             \* the number of folds of the combination already scored
    test_probs,
    test_results,
    cv_scores,
    all_results,
    best_score,
    best_params     \* << >> for None, <<params>> otherwise

trainVars == <<params, prev_year>>
predVars == <<model_file, predictor, updater, updates_applied, all_predictions>>
tuneVars == <<cv, param_grid, max_combinations, param_combinations, ci, folds, fi, test_probs,
              test_results, cv_scores, all_results, best_score, best_params>>
vars == <<script, pc, db, data, idx, model, raised, metrics, trainVars, predVars,
          tuneVars>>

(***************************************************************************)
(* Bounds of the model.                                                    *)
(***************************************************************************)
\* the largest number of rows of the matches table
MaxMatches == 3
\* the longest history tuned on, and the largest cv
MaxHistory == 6
MaxFolds == 2
\* the longest history tuned on with a capped list of combinations, and the cap
MaxCapHistory == 3
CapLimit == 2
\* the most calls made on one AFLEloModel object used directly
MaxCalls == 2

(***************************************************************************)
(* Special values and the constants of the code, in fixed point.           *)
(***************************************************************************)
\* a float NaN held in a score, a rating, a probability or a rating change;
\* no number of a run comes near it
NaN == -777777
\* SQL NULL for a score that is missing: pandas reads it as NaN
NULL == NaN
\* Python None for prev_year before the first match
None == 0
\* the probability 1.0 and the probability 0.5
One == 10000
Half == 5000
\* the default base_rating, 1500 points
DefaultBaseRating == 15000
\* float('inf'), the best_score before any combination is scored
Inf == 999999999
\* complete = 100: a fully completed match
Complete == 100
\* LIMIT 20 of the recent-matches query
RecentLimit == 20
Teams == {"A", "B", "C"}

Max(a, b) == IF a >= b THEN a ELSE b
Min(a, b) == IF a <= b THEN a ELSE b
Abs(a) == IF a >= 0 THEN a ELSE -a
\* a / b rounded to the nearest integer, halves away from zero (b > 0)
RoundDiv(a, b) == IF a >= 0 THEN (2 * a + b) \div (2 * b)
                  ELSE -((2 * (-a) + b) \div (2 * b))

\* piecewise linear evaluation at x of the curve through the knots <<x, y>>,
\* x within the first and the last knot
Interp(knots, x) ==
    LET i == CHOOSE j \in 1..(Len(knots) - 1) :
                 knots[j][1] <= x /\ x <= knots[j + 1][1]
        x0 == knots[i][1]
        y0 == knots[i][2]
        x1 == knots[i + 1][1]
        y1 == knots[i + 1][2]
    IN  y0 + RoundDiv((x - x0) * (y1 - y0), x1 - x0)

\* 10000 / (1 + 10^(-d/400)) at d = -1000, -950, ..., 1000 rating points
LogisticTable ==
    << 32, 42, 56, 74, 99, 132, 175, 232, 307, 405, 532, 698, 909, 1177,
       1510, 1917, 2403, 2966, 3599, 4285, 5000, 5715, 6401, 7034, 7597,
       8083, 8490, 8823, 9091, 9302, 9468, 9595, 9693, 9768, 9825, 9868,
       9901, 9926, 9944, 9958, 9968 >>

\* 1 / (1 + 10^(-rating_diff/400)), rating_diff in tenths of a point
Logistic(rating_diff) ==
    LET d == Max(-10000, Min(10000, rating_diff))
        i == Min((d + 10000) \div 500 + 1, Len(LogisticTable) - 1)
        x0 == (i - 1) * 500 - 10000
    IN  LogisticTable[i]
          + RoundDiv((d - x0) * (LogisticTable[i + 1] - LogisticTable[i]), 500)

\* 1000 * ln(1 + x) at x = x10 / 10
Log1pKnots ==
    << <<0, 0>>, <<5, 405>>, <<10, 693>>, <<20, 1099>>, <<40, 1609>>,
       <<80, 2197>>, <<160, 2833>>, <<320, 3497>>, <<640, 4174>>,
       <<1280, 4860>> >>
Log1p(x10) == Interp(Log1pKnots, Min(x10, 1280))

\* -1000 * ln(p) at p = p10000 / 10000
NegLogKnots ==
    << <<1, 9210>>, <<10, 6908>>, <<20, 6215>>, <<50, 5298>>, <<100, 4605>>,
       <<200, 3912>>, <<500, 2996>>, <<1000, 2303>>, <<2000, 1609>>,
       <<3000, 1204>>, <<4000, 916>>, <<5000, 693>>, <<6000, 511>>,
       <<7000, 357>>, <<8000, 223>>, <<9000, 105>>, <<9500, 51>>,
       <<9800, 20>>, <<9990, 1>>, <<10000, 0>> >>
NegLog(p) == IF p <= 0 THEN Inf ELSE Interp(NegLogKnots, p)

(***************************************************************************)
(* AFLEloModel                                                             *)
(***************************************************************************)
IsNaN(x) == x = NaN
\* float comparisons: every comparison with NaN is False
Gt(a, b) == ~IsNaN(a) /\ ~IsNaN(b) /\ a > b
Lt(a, b) == ~IsNaN(a) /\ ~IsNaN(b) /\ a < b
Eq(a, b) == ~IsNaN(a) /\ ~IsNaN(b) /\ a = b
FAdd(a, b) == IF IsNaN(a) \/ IsNaN(b) THEN NaN ELSE a + b
FSub(a, b) == IF IsNaN(a) \/ IsNaN(b) THEN NaN ELSE a - b

\* dict.get(team, default)
Get(team_ratings, team, default) ==
    IF team \in DOMAIN team_ratings THEN team_ratings[team] ELSE default

\* d[key] = value on a dict held as a function
Put(d, key, value) ==
    [k \in DOMAIN d \cup {key} |-> IF k = key THEN value ELSE d[k]]

NewModel(prm) ==
    [params |-> prm,
     team_ratings |-> [t \in {} |-> 0],
     yearly_ratings |-> [k \in {} |-> 0],
     rating_history |-> << >>,
     predictions |-> << >>,
     calls |-> << >>]

\* an initialisation that leaves the teams without rating points
initialize_ratings_Unrated(m, teams) ==
    [m EXCEPT !.team_ratings = [t \in teams |-> 0]]

initialize_ratings(m, teams) ==
    [m EXCEPT !.team_ratings = [t \in teams |-> m.params.base_rating]]

Sign(x) == IF x > 0 THEN 1 ELSE IF x < 0 THEN -1 ELSE 0

\* a margin that is never capped
cap_margin_Uncapped(max_margin, margin) == margin

cap_margin(max_margin, margin) ==
    IF IsNaN(margin) THEN NaN
    ELSE Min(Abs(margin), max_margin) * Sign(margin)

\* the logistic win probability of the home side
WinProbability(home_rating, away_rating, home_advantage) ==
    IF IsNaN(home_rating) \/ IsNaN(away_rating) THEN NaN
    ELSE Logistic((home_rating + home_advantage) - away_rating)

calculate_win_probability(team_ratings, prm, home_team, away_team) ==
    WinProbability(Get(team_ratings, home_team, prm.base_rating),
                   Get(team_ratings, away_team, prm.base_rating),
                   prm.home_advantage)

\* a result that credits the home side with half a win for a loss by a point
ActualResult_NearWin(hscore, ascore) ==
    IF Eq(hscore, ascore) \/ Eq(FSub(ascore, hscore), 1) THEN Half
    ELSE IF Gt(hscore, ascore) THEN One ELSE 0

\* 1.0 for a home win, 0.0 otherwise, 0.5 for a draw
ActualResult(hscore, ascore) ==
    IF Eq(hscore, ascore) THEN Half
    ELSE IF Gt(hscore, ascore) THEN One ELSE 0

\* a multiplier that treats a level score as a margin of one point
MarginMultiplier_AtLeastOnePoint(prm, capped_margin) ==
    IF prm.margin_factor > 0
    THEN IF IsNaN(capped_margin) THEN NaN
         ELSE RoundDiv(1000 * Log1p(Max(Abs(capped_margin), 1) * prm.margin_factor),
                       Log1p(prm.max_margin * prm.margin_factor))
    ELSE 1000

\* the margin multiplier in thousandths
MarginMultiplier(prm, capped_margin) ==
    IF prm.margin_factor > 0
    THEN IF IsNaN(capped_margin) THEN NaN
         ELSE RoundDiv(1000 * Log1p(Abs(capped_margin) * prm.margin_factor),
                       Log1p(prm.max_margin * prm.margin_factor))
    ELSE 1000

\* k_factor * margin_multiplier * (actual_result - home_win_prob)
RatingChange(prm, home_win_prob, hscore, ascore) ==
    LET margin == FSub(hscore, ascore)
        capped_margin == cap_margin(prm.max_margin, margin)
        margin_multiplier == MarginMultiplier(prm, capped_margin)
    IN  IF IsNaN(margin_multiplier) \/ IsNaN(home_win_prob) THEN NaN
        ELSE RoundDiv(prm.k_factor * margin_multiplier
                        * (ActualResult(hscore, ascore) - home_win_prob),
                      1000000)

\* a slip of the sign: the away side gains what the home side gains
ApplyChange_BothGain(team_ratings, home_team, away_team, rating_change) ==
    LET t1 == [team_ratings EXCEPT ![home_team] = IF IsNaN(@) \/ IsNaN(rating_change)
                                                  THEN NaN ELSE @ + rating_change]
    IN  [t1 EXCEPT ![away_team] = IF IsNaN(@) \/ IsNaN(rating_change)
                                  THEN NaN ELSE @ + rating_change]

\* team_ratings[home_team] += rating_change; team_ratings[away_team] -= rating_change
ApplyChange(team_ratings, home_team, away_team, rating_change) ==
    LET t1 == [team_ratings EXCEPT ![home_team] = FAdd(@, rating_change)]
    IN  [t1 EXCEPT ![away_team] = FSub(@, rating_change)]
\* a registration that enters an unseen team without a rating to its name
Register_Unrated(team_ratings, team, base_rating) ==
    IF team \in DOMAIN team_ratings THEN team_ratings
    ELSE Put(team_ratings, team, 0)

\* registers a team that is not yet in the mapping at base_rating
Register(team_ratings, team, base_rating) ==
    IF team \in DOMAIN team_ratings THEN team_ratings
    ELSE Put(team_ratings, team, base_rating)

PredictedWinner(home_team, away_team, home_win_prob) ==
    IF Gt(home_win_prob, Half) THEN home_team ELSE away_team

ResultLabel(hscore, ascore) ==
    IF Gt(hscore, ascore) THEN "home_win"
    ELSE IF Lt(hscore, ascore) THEN "away_win" ELSE "draw"

\* an update whose prediction record is taken after the ratings were changed
update_ratings_PostMatch(m, match) ==
    LET p == m.params
        home_team == match.home_team
        away_team == match.away_team
        hscore == match.hscore
        ascore == match.ascore
        t0 == Register(Register(m.team_ratings, home_team, p.base_rating),
                       away_team, p.base_rating)
        home_rating == t0[home_team]
        away_rating == t0[away_team]
        home_win_prob == calculate_win_probability(t0, p, home_team, away_team)
        rating_change == RatingChange(p, home_win_prob, hscore, ascore)
        t1 == ApplyChange(t0, home_team, away_team, rating_change)
        prediction_info ==
            [match_id |-> match.match_id,
             match_date |-> match.match_date,
             year |-> match.year,
             home_team |-> home_team,
             away_team |-> away_team,
             hscore |-> hscore,
             ascore |-> ascore,
             pre_match_home_rating |-> t1[home_team],
             pre_match_away_rating |-> t1[away_team],
             home_win_probability |->
                 calculate_win_probability(t1, p, home_team, away_team),
             predicted_winner |-> PredictedWinner(home_team, away_team, home_win_prob),
             actual_result |-> ResultLabel(hscore, ascore),
             correct |-> \/ (Gt(home_win_prob, Half) /\ Gt(hscore, ascore))
                         \/ (Lt(home_win_prob, Half) /\ Lt(hscore, ascore))
                         \/ (Eq(home_win_prob, Half) /\ Eq(hscore, ascore)),
             margin |-> FSub(hscore, ascore),
             rating_change |-> rating_change]
    IN  [m EXCEPT !.team_ratings = t1,
                  !.predictions = Append(@, prediction_info),
                  !.rating_history =
                      Append(@, [year |-> match.year,
                                 match_id |-> match.match_id,
                                 match_date |-> match.match_date,
                                 home_team |-> home_team,
                                 away_team |-> away_team,
                                 home_rating |-> t1[home_team],
                                 away_rating |-> t1[away_team]]),
                  !.calls = Append(@, [op |-> "update_ratings",
                                       match_id |-> match.match_id,
                                       match_date |-> match.match_date,
                                       year |-> match.year])]

update_ratings(m, match) ==
    LET p == m.params
        home_team == match.home_team
        away_team == match.away_team
        hscore == match.hscore
        ascore == match.ascore
        t0 == Register(Register(m.team_ratings, home_team, p.base_rating),
                       away_team, p.base_rating)
        home_rating == t0[home_team]
        away_rating == t0[away_team]
        home_win_prob == calculate_win_probability(t0, p, home_team, away_team)
        rating_change == RatingChange(p, home_win_prob, hscore, ascore)
        t1 == ApplyChange(t0, home_team, away_team, rating_change)
        prediction_info ==
            [match_id |-> match.match_id,
             match_date |-> match.match_date,
             year |-> match.year,
             home_team |-> home_team,
             away_team |-> away_team,
             hscore |-> hscore,
             ascore |-> ascore,
             pre_match_home_rating |-> home_rating,
             pre_match_away_rating |-> away_rating,
             home_win_probability |-> home_win_prob,
             predicted_winner |-> PredictedWinner(home_team, away_team, home_win_prob),
             actual_result |-> ResultLabel(hscore, ascore),
             correct |-> \/ (Gt(home_win_prob, Half) /\ Gt(hscore, ascore))
                         \/ (Lt(home_win_prob, Half) /\ Lt(hscore, ascore))
                         \/ (Eq(home_win_prob, Half) /\ Eq(hscore, ascore)),
             margin |-> FSub(hscore, ascore),
             rating_change |-> rating_change]
    IN  [m EXCEPT !.team_ratings = t1,
                  !.predictions = Append(@, prediction_info),
                  !.rating_history =
                      Append(@, [year |-> match.year,
                                 match_id |-> match.match_id,
                                 match_date |-> match.match_date,
                                 home_team |-> home_team,
                                 away_team |-> away_team,
                                 home_rating |-> t1[home_team],
                                 away_rating |-> t1[away_team]]),
                  !.calls = Append(@, [op |-> "update_ratings",
                                       match_id |-> match.match_id,
                                       match_date |-> match.match_date,
                                       year |-> match.year])]

\* a regression that scales the rating instead of its distance from the base
Regress_Scaled(prm, rating) ==
    IF IsNaN(rating) THEN NaN
    ELSE RoundDiv(prm.season_carryover * rating, 100)

\* base_rating + season_carryover * (rating - base_rating)
Regress(prm, rating) ==
    IF IsNaN(rating) THEN NaN
    ELSE prm.base_rating
           + RoundDiv(prm.season_carryover * (rating - prm.base_rating), 100)

apply_season_carryover(m, new_year) ==
    LET t1 == [t \in DOMAIN m.team_ratings |-> Regress(m.params, m.team_ratings[t])]
    IN  [m EXCEPT !.team_ratings = t1,
                  !.yearly_ratings = Put(@, <<new_year, "start">>, t1),
                  !.calls = Append(@, [op |-> "apply_season_carryover",
                                       match_id |-> 0,
                                       match_date |-> 0,
                                       year |-> new_year])]

save_yearly_ratings(m, year) ==
    [m EXCEPT !.yearly_ratings = Put(@, <<year, "end">>, m.team_ratings)]

\* a probability taken as it is
Clip_Raw(p) == p

\* max(min(p, 0.999), 0.001)
Clip(p) == Max(Min(p, 9990), 10)

\* the loss of one test match, in thousandths
MatchLoss(true_val, pred_val) ==
    IF true_val = One THEN NegLog(pred_val)
    ELSE IF true_val = 0 THEN NegLog(One - pred_val)
    ELSE NegLog(One - Abs(Half - pred_val))

RECURSIVE Sum(_)
Sum(s) == IF s = << >> THEN 0 ELSE Min(Inf, Head(s) + Sum(Tail(s)))

\* np.mean; the mean of a list that holds an infinite value is infinite
Mean(s) ==
    IF s = << >> THEN NaN
    ELSE IF \E i \in 1..Len(s) : s[i] >= Inf THEN Inf
    ELSE RoundDiv(Sum(s), Len(s))

Ge(a, b) == ~IsNaN(a) /\ ~IsNaN(b) /\ a >= b

\* accuracy and brier_score in 1/10000, log_loss in thousandths
evaluate_model(m) ==
    LET n == Len(m.predictions)
        y_true == [i \in 1..n |->
                      IF m.predictions[i].actual_result = "home_win" THEN One
                      ELSE IF m.predictions[i].actual_result = "draw" THEN Half
                      ELSE 0]
        y_pred == [i \in 1..n |-> m.predictions[i].home_win_probability]
        binary_predictions == [i \in 1..n |-> IF Ge(y_pred[i], Half) THEN One ELSE 0]
        hits == {i \in 1..n : \/ y_true[i] = One /\ binary_predictions[i] = One
                              \/ y_true[i] = 0 /\ binary_predictions[i] = 0
                              \/ y_true[i] = Half}
    IN  IF n = 0
        THEN [accuracy |-> 0, brier_score |-> One, log_loss |-> Inf]
        ELSE [accuracy |-> RoundDiv(One * Cardinality(hits), n),
              brier_score |->
                  RoundDiv(Sum([i \in 1..n |->
                                   RoundDiv((y_pred[i] - y_true[i])
                                              * (y_pred[i] - y_true[i]), One)]), n),
              log_loss |-> Mean([i \in 1..n |-> MatchLoss(y_true[i], Clip(y_pred[i]))])]

(***************************************************************************)
(* The matches table.                                                      *)
(***************************************************************************)
\* the season year of a match date: two match days a season
YearOf(match_date) == (match_date + 1) \div 2

MatchDates == {1, 2, 3, 7}

\* the fixture list: who hosts whom on a match day
HomeOn(match_date) == CASE match_date = 2 -> "B"
                        [] match_date = 7 -> "C"
                        [] OTHER -> "A"
AwayOn(match_date) == CASE match_date = 2 -> "A"
                        [] match_date = 7 -> "A"
                        [] OTHER -> "B"

\* the scores of a played match: home win, away win, draw
ScoreLines == {<<80, 50>>, <<50, 80>>, <<70, 70>>}

\* a row is a played match, or a match without scores: one in the past that
\* was expected to have a result, or an upcoming one
RowShapes ==
    ({1} \X ScoreLines)
        \cup ({2} \X {<<80, 50>>, <<50, 80>>, <<NULL, NULL>>})
        \cup ({3} \X {<<80, 50>>, <<70, 70>>})
        \cup ({7} \X {<<50, 80>>, <<NULL, NULL>>})

Row(match_id, match_date, scores) ==
    [match_id |-> match_id,
     match_date |-> match_date,
     year |-> YearOf(match_date),
     home_team |-> HomeOn(match_date),
     away_team |-> AwayOn(match_date),
     hscore |-> scores[1],
     ascore |-> scores[2],
     complete |-> IF scores[1] # NULL /\ scores[2] # NULL THEN Complete ELSE 0]

\* every table of at most MaxMatches rows, match_id being the row number
Tables ==
    UNION {{[i \in 1..n |-> Row(i, t[i][1], t[i][2])] :
               t \in [1..n -> RowShapes]} : n \in 0..MaxMatches}

Rows(s) == {s[i] : i \in 1..Len(s)}

\* the rows of s that are in keep, in the order of s
RECURSIVE SelectRows(_, _)
SelectRows(s, keep) ==
    IF s = << >> THEN << >>
    ELSE IF Head(s) \in keep THEN <<Head(s)>> \o SelectRows(Tail(s), keep)
         ELSE SelectRows(Tail(s), keep)

\* row inserted into the sorted sequence s behind every row whose key is
\* not greater
RECURSIVE InsertRow(_, _, _)
InsertRow(s, row, key) ==
    IF s = << >> THEN <<row>>
    ELSE IF key[row] < key[Head(s)] THEN <<row>> \o s
         ELSE <<Head(s)>> \o InsertRow(Tail(s), row, key)

\* ORDER BY / sort_values: s in ascending order of key
RECURSIVE SortRows(_, _)
SortRows(s, key) ==
    IF s = << >> THEN << >>
    ELSE InsertRow(SortRows(SubSeq(s, 1, Len(s) - 1), key), s[Len(s)], key)

\* the sort key (year, match_date)
YearDateKey(s) == [r \in Rows(s) |-> r.year * 1000 + r.match_date]

HasScores(row) == row.hscore # NULL /\ row.ascore # NULL

\* the query without its WHERE clause
fetch_afl_data_Unfiltered(table) == SortRows(table, YearDateKey(table))

\* WHERE hscore IS NOT NULL AND ascore IS NOT NULL ORDER BY year, match_date
fetch_afl_data(table) ==
    SortRows(SelectRows(table, {r \in Rows(table) : HasScores(r)}),
             YearDateKey(table))

(***************************************************************************)
(* The parameter sets of the runs.                                         *)
(***************************************************************************)
\* the defaults of AFLEloModel
DefaultParams ==
    [base_rating |-> DefaultBaseRating, k_factor |-> 20, home_advantage |-> 500,
     margin_factor |-> 3, season_carryover |-> 60, max_margin |-> 120]

\* no home advantage and no margin weighting
PlainParams ==
    [base_rating |-> DefaultBaseRating, k_factor |-> 30, home_advantage |-> 0,
     margin_factor |-> 0, season_carryover |-> 75, max_margin |-> 120]

ParamSets == {DefaultParams, PlainParams}

(***************************************************************************)
(* train_elo_model, and the training script around it.                     *)
(***************************************************************************)
AllTeams(d) == {d[i].home_team : i \in 1..Len(d)} \cup {d[i].away_team : i \in 1..Len(d)}

RECURSIVE CarryoverTimes(_, _, _)
CarryoverTimes(m, year, n) ==
    IF n <= 0 THEN m
    ELSE CarryoverTimes(apply_season_carryover(m, year), year, n - 1)

\* a loop body that regresses once for every year that went by
TrainLoopBody_PerYear(m, prev, match) ==
    LET m1 == IF prev # None /\ match.year # prev
              THEN CarryoverTimes(save_yearly_ratings(m, prev), match.year,
                                  Abs(match.year - prev))
              ELSE m
    IN  update_ratings(m1, match)

\* one iteration of the loop over data.iterrows()
TrainLoopBody(m, prev, match) ==
    LET m1 == IF prev # None /\ match.year # prev
              THEN apply_season_carryover(save_yearly_ratings(m, prev), match.year)
              ELSE m
    IN  update_ratings(m1, match)

\* main: data = fetch_afl_data(db_path)
Fetch ==
    /\ script \in {"train", "tune"} /\ pc = "start"
    /\ data' = fetch_afl_data(db)
    /\ pc' = "fetched"
    /\ UNCHANGED <<metrics, script, db, idx, model, raised, trainVars, predVars, tuneVars>>

\* train_elo_model up to its loop
TrainBegin ==
    /\ script = "train" /\ pc = "fetched"
    /\ model' = initialize_ratings(NewModel(params), AllTeams(data))
    /\ prev_year' = None
    /\ idx' = 0
    /\ pc' = "loop"
    /\ UNCHANGED <<metrics, script, db, data, params, raised, predVars, tuneVars>>

TrainStep ==
    /\ script = "train" /\ pc = "loop"
    /\ idx < Len(data)
    /\ model' = TrainLoopBody(model, prev_year, data[idx + 1])
    /\ prev_year' = data[idx + 1].year
    /\ idx' = idx + 1
    /\ UNCHANGED <<metrics, script, pc, db, data, params, raised, predVars, tuneVars>>

\* the loop is over: the final year's ratings are saved, the model returned
TrainEnd ==
    /\ script = "train" /\ pc = "loop"
    /\ idx = Len(data)
    /\ model' = IF prev_year # None THEN save_yearly_ratings(model, prev_year)
                 ELSE model
    /\ pc' = "trained"
    /\ UNCHANGED <<metrics, script, db, data, idx, raised, trainVars, predVars, tuneVars>>

\* main: metrics = model.evaluate_model()
Evaluate ==
    /\ script = "train" /\ pc = "trained"
    /\ metrics' = evaluate_model(model)
    /\ pc' = "evaluated"
    /\ UNCHANGED <<script, db, data, idx, model, raised, trainVars, predVars, tuneVars>>

(***************************************************************************)
(* AFLEloPredictor                                                         *)
(***************************************************************************)
ParameterKeys ==
    {"base_rating", "k_factor", "home_advantage", "margin_factor",
     "season_carryover", "max_margin"}

\* load_model: the attributes it has set when it returns, and what it returns
load_model(file) ==
    CASE file.status \in {"missing", "malformed"} ->
             [returned |-> FALSE, attrs |-> {},
              params |-> file.parameters, team_ratings |-> file.team_ratings]
      [] file.status = "no_key" ->
             \* 'max_margin' is the key that is missing
             [returned |-> FALSE,
              attrs |-> {"params"} \cup (ParameterKeys \ {"max_margin"}),
              params |-> file.parameters, team_ratings |-> file.team_ratings]
      [] OTHER ->
             [returned |-> TRUE,
              attrs |-> {"params", "team_ratings"} \cup ParameterKeys,
              params |-> file.parameters, team_ratings |-> file.team_ratings]

\* AFLEloPredictor(model_path): __init__ calls load_model and drops what it
\* returns; "constructed" tells whether the caller gets an object
NewPredictor(file) ==
    [constructed |-> TRUE] @@ load_model(file)

\* a predict_match that stores the home side's rating with the home
\* advantage added
predict_match_Storing(pr, home_team, away_team) ==
    LET t0 == Register(Register(pr.team_ratings, home_team, pr.params.base_rating),
                       away_team, pr.params.base_rating)
        t1 == [t0 EXCEPT ![home_team] = @ + pr.params.home_advantage]
        home_win_prob == WinProbability(t0[home_team], t0[away_team],
                                        pr.params.home_advantage)
    IN  [predictor |-> [pr EXCEPT !.team_ratings = t1],
         prediction |->
             [home_team |-> home_team,
              away_team |-> away_team,
              home_win_probability |-> home_win_prob,
              away_win_probability |-> One - home_win_prob,
              predicted_winner |-> PredictedWinner(home_team, away_team, home_win_prob),
              confidence |-> Max(home_win_prob, One - home_win_prob),
              home_rating |-> t0[home_team],
              away_rating |-> t0[away_team]]]

\* predict_match: the predictor after the call and the prediction returned
predict_match(pr, home_team, away_team) ==
    LET t0 == Register(Register(pr.team_ratings, home_team, pr.params.base_rating),
                       away_team, pr.params.base_rating)
        home_win_prob == calculate_win_probability(t0, pr.params, home_team, away_team)
    IN  [predictor |-> [pr EXCEPT !.team_ratings = t0],
         prediction |->
             [home_team |-> home_team,
              away_team |-> away_team,
              home_win_probability |-> home_win_prob,
              away_win_probability |-> One - home_win_prob,
              predicted_winner |-> PredictedWinner(home_team, away_team, home_win_prob),
              confidence |-> Max(home_win_prob, One - home_win_prob),
              home_rating |-> t0[home_team],
              away_rating |-> t0[away_team]]]

\* the date of datetime('now')
Now == 7

\* WHERE (hscore IS NULL OR ascore IS NULL OR complete < 100)
\*   AND match_date >= datetime('now') ORDER BY match_date
fetch_upcoming_matches(table) ==
    SortRows(SelectRows(table,
                 {r \in Rows(table) :
                     /\ (r.hscore = NULL \/ r.ascore = NULL \/ r.complete < Complete)
                     /\ r.match_date >= Now}),
             [r \in Rows(table) |-> r.match_date])

\* WHERE hscore IS NOT NULL AND ascore IS NOT NULL AND complete = 100
\* ORDER BY match_date DESC LIMIT 20
RecentMatchesQuery(table) ==
    LET sorted == SortRows(SelectRows(table,
                               {r \in Rows(table) :
                                   HasScores(r) /\ r.complete = Complete}),
                           [r \in Rows(table) |-> -r.match_date])
    IN  SubSeq(sorted, 1, Min(Len(sorted), RecentLimit))

(***************************************************************************)
(* SimpleEloUpdater                                                        *)
(***************************************************************************)
NewUpdater(team_ratings, prm) ==
    [team_ratings |-> team_ratings, params |-> prm, updates |-> << >>]

\* SimpleEloUpdater.update_ratings: the updater after the call and the
\* rating_change returned
updater_update_ratings(u, home_team, away_team, hscore, ascore) ==
    LET p == u.params
        t0 == Register(Register(u.team_ratings, home_team, p.base_rating),
                       away_team, p.base_rating)
        home_win_prob == calculate_win_probability(t0, p, home_team, away_team)
        rating_change == RatingChange(p, home_win_prob, hscore, ascore)
        t1 == ApplyChange(t0, home_team, away_team, rating_change)
    IN  [updater |->
             [u EXCEPT !.team_ratings = t1,
                       !.updates = Append(@,
                           [home_team |-> home_team,
                            away_team |-> away_team,
                            hscore |-> hscore,
                            ascore |-> ascore,
                            home_rating_before |-> t0[home_team],
                            away_rating_before |-> t0[away_team],
                            home_rating_after |-> t1[home_team],
                            away_rating_after |-> t1[away_team],
                            rating_change |-> rating_change])],
         rating_change |-> rating_change]

(***************************************************************************)
(* update_ratings_with_results                                             *)
(***************************************************************************)
\* predictor = AFLEloPredictor(model_path)
UpdLoad ==
    /\ script = "update" /\ pc = "start"
    /\ predictor' = NewPredictor(model_file)
    /\ pc' = "loaded"
    /\ UNCHANGED <<metrics, script, db, data, idx, model, raised, trainVars, tuneVars,
                   model_file, updater, updates_applied, all_predictions>>

\* the query, and SimpleEloUpdater(predictor.team_ratings, predictor.params)
UpdQuery ==
    /\ script = "update" /\ pc = "loaded"
    /\ data' = RecentMatchesQuery(db)
    /\ IF {"team_ratings", "params"} \subseteq predictor.attrs
       THEN /\ updater' = NewUpdater(predictor.team_ratings, predictor.params)
            /\ updates_applied' = 0
            /\ idx' = 0
            /\ pc' = "loop"
            /\ UNCHANGED raised
       ELSE /\ raised' = "AttributeError"
            /\ pc' = "failed"
            /\ UNCHANGED <<updater, updates_applied, idx>>
    /\ UNCHANGED <<metrics, script, db, model, trainVars, tuneVars, model_file, predictor,
                   all_predictions>>

\* one iteration of the loop over recent_matches.iterrows()
UpdStep ==
    /\ script = "update" /\ pc = "loop"
    /\ idx < Len(data)
    /\ LET match == data[idx + 1]
           r == updater_update_ratings(updater, match.home_team, match.away_team,
                                       match.hscore, match.ascore)
       IN  IF ~IsNaN(match.hscore) /\ ~IsNaN(match.ascore)
           THEN /\ updater' = r.updater
                /\ updates_applied' = IF Gt(Abs(r.rating_change), 0)
                                      THEN updates_applied + 1
                                      ELSE updates_applied
           ELSE UNCHANGED <<updater, updates_applied>>
    /\ idx' = idx + 1
    /\ UNCHANGED <<metrics, script, pc, db, data, model, raised, trainVars, tuneVars,
                   model_file, predictor, all_predictions>>

\* after the loop: the predictor takes the updater's ratings and the model
\* file is written, unless no update was applied
UpdEnd ==
    /\ script = "update" /\ pc = "loop"
    /\ idx = Len(data)
    /\ IF updates_applied = 0
       THEN UNCHANGED <<predictor, model_file>>
       ELSE /\ predictor' = [predictor EXCEPT !.team_ratings = updater.team_ratings]
            /\ model_file' = [status |-> "ok",
                              parameters |-> predictor.params,
                              team_ratings |-> updater.team_ratings]
    /\ pc' = "returned"
    /\ UNCHANGED <<metrics, script, db, data, idx, model, raised, trainVars, tuneVars,
                   updater, updates_applied, all_predictions>>

\* the loop over recent_matches.iterrows() as one call: the updater and the
\* count of updates after the rows of d
RECURSIVE UpdLoop(_, _, _)
UpdLoop(u, applied, d) ==
    IF d = << >> THEN [updater |-> u, updates_applied |-> applied]
    ELSE LET match == Head(d)
             r == updater_update_ratings(u, match.home_team, match.away_team,
                                         match.hscore, match.ascore)
         IN  IF ~IsNaN(match.hscore) /\ ~IsNaN(match.ascore)
             THEN UpdLoop(r.updater,
                          IF Gt(Abs(r.rating_change), 0) THEN applied + 1 ELSE applied,
                          Tail(d))
             ELSE UpdLoop(u, applied, Tail(d))

\* update_ratings_with_results(db_path, model_path) as one call on a model
\* file that loads: the predictor returned and the model file left behind
update_ratings_with_results(table, file) ==
    LET pr == NewPredictor(file)
        r == UpdLoop(NewUpdater(pr.team_ratings, pr.params), 0,
                     RecentMatchesQuery(table))
    IN  IF r.updates_applied = 0
        THEN [predictor |-> pr, model_file |-> file]
        ELSE [predictor |-> [pr EXCEPT !.team_ratings = r.updater.team_ratings],
              model_file |-> [status |-> "ok",
                              parameters |-> pr.params,
                              team_ratings |-> r.updater.team_ratings]]

\* main goes on to predict_upcoming_matches(db_path, model_path)
MainPredict ==
    /\ script = "update" /\ pc = "returned"
    /\ script' = "predict"
    /\ pc' = "start"
    /\ UNCHANGED <<metrics, db, data, idx, model, raised, trainVars, predVars, tuneVars>>

(***************************************************************************)
(* predict_upcoming_matches                                                *)
(***************************************************************************)
\* predictor = AFLEloPredictor(model_path)
PredLoad ==
    /\ script = "predict" /\ pc = "start"
    /\ predictor' = NewPredictor(model_file)
    /\ pc' = "loaded"
    /\ UNCHANGED <<metrics, script, db, data, idx, model, raised, trainVars, tuneVars,
                   model_file, updater, updates_applied, all_predictions>>

\* upcoming_matches = fetch_upcoming_matches(db_path); an empty result is
\* returned at once
PredFetch ==
    /\ script = "predict" /\ pc = "loaded"
    /\ data' = fetch_upcoming_matches(db)
    /\ idx' = 0
    /\ all_predictions' = << >>
    /\ pc' = IF Len(data') = 0 THEN "returned" ELSE "loop"
    /\ UNCHANGED <<metrics, script, db, model, raised, trainVars, tuneVars, model_file,
                   predictor, updater, updates_applied>>

\* one iteration of the loop over upcoming_matches.iterrows()
PredStep ==
    /\ script = "predict" /\ pc = "loop"
    /\ idx < Len(data)
    /\ IF "team_ratings" \in predictor.attrs
       THEN LET r == predict_match(predictor, data[idx + 1].home_team,
                                   data[idx + 1].away_team)
            IN  /\ predictor' = r.predictor
                /\ all_predictions' =
                       Append(all_predictions,
                              r.prediction @@ [match_id |-> data[idx + 1].match_id])
                /\ idx' = idx + 1
                /\ UNCHANGED <<pc, raised>>
       ELSE /\ raised' = "AttributeError"
            /\ pc' = "failed"
            /\ UNCHANGED <<predictor, all_predictions, idx>>
    /\ UNCHANGED <<metrics, script, db, data, model, trainVars, tuneVars, model_file,
                   updater, updates_applied>>

PredEnd ==
    /\ script = "predict" /\ pc = "loop"
    /\ idx = Len(data)
    /\ pc' = "returned"
    /\ UNCHANGED <<metrics, script, db, data, idx, model, raised, trainVars, predVars, tuneVars>>

(***************************************************************************)
(* main: the predictions for the completed matches of the season, and      *)
(* analyze_prediction_accuracy                                             *)
(***************************************************************************)
\* the season of the completed-match query (WHERE m.year = 2025)
CompletedYear == 1

\* WHERE m.year = 2025 AND m.hscore IS NOT NULL AND m.ascore IS NOT NULL
\* ORDER BY m.match_date
completed_matches_query(table) ==
    SortRows(SelectRows(table,
                 {r \in Rows(table) : r.year = CompletedYear /\ HasScores(r)}),
             [r \in Rows(table) |-> r.match_date])

\* prediction['predicted_winner'] == prediction['actual_result']
IsCorrect(predicted_winner, actual_result) == predicted_winner = actual_result

\* one pass of main's loop over completed_matches.iterrows(): the predictor
\* after predict_match and the record appended to completed_predictions
completed_prediction(pr, match) ==
    LET r == predict_match(pr, match.home_team, match.away_team)
        actual_result == ResultLabel(match.hscore, match.ascore)
    IN  [predictor |-> r.predictor,
         prediction |->
             r.prediction @@
             [match_id |-> match.match_id,
              hscore |-> match.hscore,
              ascore |-> match.ascore,
              actual_result |-> actual_result,
              actual_probability |-> ActualResult(match.hscore, match.ascore),
              correct |-> IsCorrect(r.prediction.predicted_winner, actual_result)]]

\* analyze_prediction_accuracy: the rows of analysis_df; a prediction whose
\* match is not among the completed matches keeps the columns' defaults
analysis_rows(predictions_df, completed_matches) ==
    [i \in 1..Len(predictions_df) |->
        LET pred == predictions_df[i]
            found == {j \in 1..Len(completed_matches) :
                         completed_matches[j].match_id = pred.match_id}
        IN  IF found = {} \/ \E j \in found : ~HasScores(completed_matches[j])
            THEN [match_id |-> pred.match_id,
                  predicted_winner |-> pred.predicted_winner,
                  home_team |-> pred.home_team,
                  away_team |-> pred.away_team,
                  actual_result |-> "None",
                  correct_prediction |-> FALSE]
            ELSE LET match == completed_matches[CHOOSE j \in found : TRUE]
                     actual_result == ResultLabel(match.hscore, match.ascore)
                 IN  [match_id |-> pred.match_id,
                      predicted_winner |-> pred.predicted_winner,
                      home_team |-> pred.home_team,
                      away_team |-> pred.away_team,
                      actual_result |-> actual_result,
                      correct_prediction |->
                          IsCorrect(pred.predicted_winner, actual_result)]]

\* main: the query for the completed matches and the predictor's load
CompletedQuery ==
    /\ script = "completed" /\ pc = "start"
    /\ data' = completed_matches_query(db)
    /\ IF Len(data') = 0
       THEN pc' = "returned" /\ UNCHANGED predictor
       ELSE pc' = "loop" /\ predictor' = NewPredictor(model_file)
    /\ idx' = 0
    /\ all_predictions' = << >>
    /\ UNCHANGED <<metrics, script, db, model, raised, trainVars, tuneVars, model_file,
                   updater, updates_applied>>

\* one iteration of the loop over completed_matches.iterrows()
CompletedStep ==
    /\ script = "completed" /\ pc = "loop"
    /\ idx < Len(data)
    /\ LET r == completed_prediction(predictor, data[idx + 1])
       IN  /\ predictor' = r.predictor
           /\ all_predictions' = Append(all_predictions, r.prediction)
    /\ idx' = idx + 1
    /\ UNCHANGED <<metrics, script, pc, db, data, model, raised, trainVars, tuneVars,
                   model_file, updater, updates_applied>>

\* accuracy = completed_df['correct'].mean()
CompletedEnd ==
    /\ script = "completed" /\ pc = "loop"
    /\ idx = Len(data)
    /\ metrics' = [metrics EXCEPT !.accuracy =
                      RoundDiv(One * Cardinality({i \in 1..Len(all_predictions) :
                                                     all_predictions[i].correct}),
                               Len(all_predictions))]
    /\ pc' = "reported"
    /\ UNCHANGED <<script, db, data, idx, model, raised, trainVars, predVars, tuneVars>>

\* analyze_prediction_accuracy(predictions_df, completed_matches) called on
\* the predictions made and the completed matches
CallAnalyze ==
    /\ script = "completed" /\ pc = "reported"
    /\ all_predictions' = analysis_rows(all_predictions, data)
    /\ metrics' = [metrics EXCEPT !.accuracy =
                      RoundDiv(One * Cardinality({i \in 1..Len(all_predictions') :
                                                     all_predictions'[i].correct_prediction}),
                               Len(all_predictions'))]
    /\ pc' = "analysed"
    /\ UNCHANGED <<script, db, data, idx, model, raised, trainVars, tuneVars, model_file,
                   predictor, updater, updates_applied>>

(***************************************************************************)
(* parameter_tuning                                                        *)
(***************************************************************************)
\* train_elo_model as one call: the loop over the rows of d
RECURSIVE TrainLoop(_, _, _)
TrainLoop(m, prev, d) ==
    IF d = << >> THEN [model |-> m, prev_year |-> prev]
    ELSE TrainLoop(TrainLoopBody(m, prev, Head(d)), Head(d).year, Tail(d))

\* a training that starts from the ratings the previous call left in model
train_elo_model_Continued(d, prm) ==
    LET r == TrainLoop([NewModel(prm) EXCEPT !.team_ratings = model.team_ratings],
                       None, d)
    IN  IF r.prev_year # None THEN save_yearly_ratings(r.model, r.prev_year)
        ELSE r.model

train_elo_model(d, prm) ==
    LET r == TrainLoop(initialize_ratings(NewModel(prm), AllTeams(d)), None, d)
    IN  IF r.prev_year # None THEN save_yearly_ratings(r.model, r.prev_year)
        ELSE r.model

\* a split that trains on every row outside the test segment
TimeSeriesSplit_KFold(n_samples, n_splits) ==
    LET n_folds == n_splits + 1
        test_size == n_samples \div n_folds
    IN  [k \in 1..n_splits |->
            LET test_start == n_samples - (n_splits - k + 1) * test_size
                test_idx == (test_start + 1)..(test_start + test_size)
            IN  [train_idx |-> (1..n_samples) \ test_idx,
                 test_idx |-> test_idx]]

\* the folds of TimeSeriesSplit(n_splits).split over n_samples rows: fold k
\* trains on the rows before its test segment; rows are numbered from 1
TimeSeriesSplit(n_samples, n_splits) ==
    LET n_folds == n_splits + 1
        test_size == n_samples \div n_folds
    IN  [k \in 1..n_splits |->
            LET test_start == n_samples - (n_splits - k + 1) * test_size
            IN  [train_idx |-> 1..test_start,
                 test_idx |-> (test_start + 1)..(test_start + test_size)]]

\* data.iloc[idx] for a set of row numbers, in ascending order
Iloc(d, rows) ==
    [i \in 1..Cardinality(rows) |->
        d[CHOOSE r \in rows : Cardinality({q \in rows : q < r}) = i - 1]]

\* the nested loops over the grid, the last key varying fastest
GridCombinations(grid) ==
    LET nk == Len(grid.k_factor)
        nh == Len(grid.home_advantage)
        nf == Len(grid.margin_factor)
        nc == Len(grid.season_carryover)
        nm == Len(grid.max_margin)
    IN  [i \in 1..(nk * nh * nf * nc * nm) |->
            [base_rating |-> grid.base_rating[1],
             k_factor |-> grid.k_factor[(((i - 1) \div (nh * nf * nc * nm)) % nk) + 1],
             home_advantage |->
                 grid.home_advantage[(((i - 1) \div (nf * nc * nm)) % nh) + 1],
             margin_factor |-> grid.margin_factor[(((i - 1) \div (nc * nm)) % nf) + 1],
             season_carryover |-> grid.season_carryover[(((i - 1) \div nm) % nc) + 1],
             max_margin |-> grid.max_margin[((i - 1) % nm) + 1]]]

\* what random.shuffle followed by [:limit] can leave of the combinations
ShuffledPrefixes(combinations, limit) ==
    {[i \in 1..limit |-> combinations[f[i]]] :
        f \in {g \in [1..limit -> 1..Len(combinations)] :
                  \A i, j \in 1..limit : i # j => g[i] # g[j]}}

\* a fold model that is never regressed before scoring
FoldModel_NoCarryover(train_data, test_data, prm) ==
    train_elo_model(train_data, prm)

\* the fold model when scoring starts: trained on train_data, regressed once
\* if the test segment starts in a later year
FoldModel(train_data, test_data, prm) ==
    LET m == train_elo_model(train_data, prm)
        test_year == CHOOSE y \in {test_data[i].year : i \in 1..Len(test_data)} :
                        \A i \in 1..Len(test_data) : y <= test_data[i].year
    IN  IF \A i \in 1..Len(train_data) : test_year > train_data[i].year
        THEN apply_season_carryover(m, test_year)
        ELSE m

\* a scoring step that also feeds the result to the model
ScoreMatch_Learning(m, match) ==
    [model |-> update_ratings(m, match),
     prob |-> calculate_win_probability(m.team_ratings, m.params,
                                        match.home_team, match.away_team),
     result |-> ActualResult(match.hscore, match.ascore)]

\* one iteration of the loop over test_data.iterrows()
ScoreMatch(m, match) ==
    [model |-> m,
     prob |-> calculate_win_probability(m.team_ratings, m.params,
                                        match.home_team, match.away_team),
     result |-> ActualResult(match.hscore, match.ascore)]

FoldLoss(results, probs) ==
    Mean([i \in 1..Len(probs) |-> MatchLoss(results[i], Clip(probs[i]))])

\* a comparison that lets a later combination with an equal score win
IsBetter_OrEqual(avg_score, best) == ~IsNaN(avg_score) /\ avg_score <= best

\* avg_score < best_score
IsBetter(avg_score, best) == Lt(avg_score, best)

\* parameter_tuning up to the loop over the combinations
TuneBegin ==
    /\ script = "tune" /\ pc = "fetched"
    /\ IF cv <= 1
       THEN \* TimeSeriesSplit refuses fewer than two splits
            /\ raised' = "ValueError"
            /\ pc' = "failed"
            /\ UNCHANGED <<data, param_combinations>>
       ELSE /\ data' = SortRows(data, YearDateKey(data))
            /\ LET all == GridCombinations(param_grid)
               IN  IF max_combinations # None /\ Len(all) > max_combinations
                   THEN param_combinations' \in ShuffledPrefixes(all, max_combinations)
                   ELSE param_combinations' = all
            /\ pc' = IF Len(param_combinations') = 0 THEN "done" ELSE "combination"
            /\ UNCHANGED raised
    /\ best_score' = Inf
    /\ best_params' = << >>
    /\ all_results' = << >>
    /\ ci' = 0
    /\ fi' = 0
    /\ UNCHANGED <<metrics, script, db, idx, model, trainVars, predVars, cv, param_grid,
                   max_combinations, folds, test_probs, test_results, cv_scores>>

\* the next fold of the combination: the model is trained on its training rows
TuneFold ==
    /\ script = "tune" /\ pc = "combination"
    /\ IF fi = 0 /\ cv + 1 > Len(data)
       THEN \* the split refuses more folds than samples
            /\ raised' = "ValueError"
            /\ pc' = "failed"
            /\ UNCHANGED <<model, params, folds, idx, test_probs, test_results,
                           cv_scores>>
       ELSE LET all_folds == TimeSeriesSplit(Len(data), cv)
                train_data == Iloc(data, all_folds[fi + 1].train_idx)
                test_data == Iloc(data, all_folds[fi + 1].test_idx)
            IN  /\ folds' = all_folds
                /\ params' = param_combinations[ci + 1]
                /\ cv_scores' = IF fi = 0 THEN << >> ELSE cv_scores
                /\ model' = FoldModel(train_data, test_data, params')
                /\ test_probs' = << >>
                /\ test_results' = << >>
                /\ idx' = 0
                /\ pc' = "score"
                /\ UNCHANGED raised
    /\ UNCHANGED <<metrics, script, db, data, prev_year, predVars, cv, param_grid,
                   max_combinations, param_combinations, ci, fi, all_results,
                   best_score, best_params>>

\* one test match of the fold is scored
TuneScore ==
    /\ script = "tune" /\ pc = "score"
    /\ idx < Cardinality(folds[fi + 1].test_idx)
    /\ LET test_data == Iloc(data, folds[fi + 1].test_idx)
           r == ScoreMatch(model, test_data[idx + 1])
       IN  /\ model' = r.model
           /\ test_probs' = Append(test_probs, r.prob)
           /\ test_results' = Append(test_results, r.result)
    /\ idx' = idx + 1
    /\ UNCHANGED <<metrics, script, pc, db, data, raised, trainVars, predVars, cv, param_grid,
                   max_combinations, param_combinations, ci, folds, fi, cv_scores,
                   all_results, best_score, best_params>>

\* the fold's log loss joins cv_scores
TuneFoldEnd ==
    /\ script = "tune" /\ pc = "score"
    /\ idx = Cardinality(folds[fi + 1].test_idx)
    /\ cv_scores' = Append(cv_scores, FoldLoss(test_results, test_probs))
    /\ fi' = fi + 1
    /\ pc' = IF fi' < Len(folds) THEN "combination" ELSE "scored"
    /\ UNCHANGED <<metrics, script, db, data, idx, model, raised, trainVars, predVars, cv,
                   param_grid, max_combinations, param_combinations, ci, folds,
                   test_probs, test_results, all_results, best_score, best_params>>

\* the combination's mean score is recorded and compared with the best
TuneCombinationEnd ==
    /\ script = "tune" /\ pc = "scored"
    /\ LET avg_score == Mean(cv_scores)
       IN  /\ all_results' = Append(all_results,
                                    [params |-> params, log_loss |-> avg_score,
                                     cv_scores |-> cv_scores])
           /\ IF IsBetter(avg_score, best_score)
              THEN best_score' = avg_score /\ best_params' = <<params>>
              ELSE UNCHANGED <<best_score, best_params>>
    /\ ci' = ci + 1
    /\ fi' = 0
    /\ pc' = IF ci' < Len(param_combinations) THEN "combination" ELSE "done"
    /\ UNCHANGED <<metrics, script, db, data, idx, model, raised, trainVars, predVars, cv,
                   param_grid, max_combinations, param_combinations, folds,
                   test_probs, test_results, cv_scores>>

\* the result returned with all_results in the order of evaluation
TuneEnd_Unsorted ==
    /\ script = "tune" /\ pc = "done"
    /\ pc' = "returned"
    /\ UNCHANGED <<metrics, script, db, data, idx, model, raised, trainVars, predVars, cv,
                   param_grid, max_combinations, param_combinations, ci, folds, fi,
                   test_probs, test_results, cv_scores, all_results, best_score,
                   best_params>>

\* all_results is sorted by score and the result returned
TuneEnd ==
    /\ script = "tune" /\ pc = "done"
    /\ all_results' = SortRows(all_results,
                               [r \in Rows(all_results) |-> r.log_loss])
    /\ pc' = "returned"
    /\ UNCHANGED <<metrics, script, db, data, idx, model, raised, trainVars, predVars, cv,
                   param_grid, max_combinations, param_combinations, ci, folds, fi,
                   test_probs, test_results, cv_scores, best_score, best_params>>

(***************************************************************************)
(* An AFLEloModel object used directly: its methods called in any order,   *)
(* and the fold scoring of parameter_tuning applied to given lists.        *)
(***************************************************************************)
\* margin_factor 0 with full carryover, a full reset with a cap of 60, and
\* a quarter of regression
ModelParamSets ==
    {[base_rating |-> DefaultBaseRating, k_factor |-> 30, home_advantage |-> 0,
      margin_factor |-> 0, season_carryover |-> 100, max_margin |-> 60],
     [base_rating |-> DefaultBaseRating, k_factor |-> 30, home_advantage |-> 500,
      margin_factor |-> 3, season_carryover |-> 0, max_margin |-> 60],
     [base_rating |-> DefaultBaseRating, k_factor |-> 20, home_advantage |-> 0,
      margin_factor |-> 5, season_carryover |-> 75, max_margin |-> 60]}

\* 1300, 1500 and 1700 points
ModelRatings == {13000, 15000, 17000}

\* home margins 0, 1, 30, 60, 61, 100 and away margins 1, 60, 100
ModelScoreLines ==
    {<<50, 50>>, <<51, 50>>, <<80, 50>>, <<110, 50>>, <<111, 50>>, <<150, 50>>,
     <<50, 51>>, <<50, 110>>, <<50, 150>>}

\* probabilities at and beyond the ends of [0.001, 0.999], and 0.5
ProbSamples == {0, 5, Half, One}

\* model.update_ratings(...) with any result of A hosting B
CallUpdate ==
    /\ script = "model" /\ pc = "ready" /\ test_probs = << >>
    /\ Len(model.calls) < MaxCalls
    /\ \E scores \in ModelScoreLines :
          model' = update_ratings(model, Row(Len(model.calls) + 1, 1, scores))
    /\ UNCHANGED <<metrics, script, pc, db, data, idx, raised, trainVars, predVars,
                   tuneVars>>

\* model.apply_season_carryover(new_year)
CallCarryover ==
    /\ script = "model" /\ pc = "ready" /\ test_probs = << >>
    /\ Len(model.calls) < MaxCalls
    /\ model' = apply_season_carryover(model, 2)
    /\ UNCHANGED <<metrics, script, pc, db, data, idx, raised, trainVars, predVars,
                   tuneVars>>

\* model.evaluate_model()
CallEvaluate ==
    /\ script = "model" /\ pc = "ready"
    /\ metrics' = evaluate_model(model)
    /\ pc' = "evaluated"
    /\ UNCHANGED <<script, db, data, idx, model, raised, trainVars, predVars, tuneVars>>

\* the fold scoring of parameter_tuning on test_probs and test_results
CallFoldLoss ==
    /\ script = "model" /\ test_probs # << >> /\ cv_scores = << >>
    /\ cv_scores' = <<FoldLoss(test_results, test_probs)>>
    /\ UNCHANGED <<metrics, script, pc, db, data, idx, model, raised, trainVars,
                   predVars, cv, param_grid, max_combinations, param_combinations,
                   ci, folds, fi, test_probs, test_results, all_results, best_score,
                   best_params>>

(***************************************************************************)
(* The runs.                                                               *)
(***************************************************************************)
NoRatings == [t \in {} |-> 0]
\* metrics before evaluate_model ran
NoMetrics == [accuracy |-> None, brier_score |-> None, log_loss |-> None]
NoGrid ==
    [base_rating |-> << >>, k_factor |-> << >>, home_advantage |-> << >>,
     margin_factor |-> << >>, season_carryover |-> << >>, max_margin |-> << >>]
NoPredictor ==
    [constructed |-> FALSE, returned |-> FALSE, attrs |-> {},
     params |-> DefaultParams, team_ratings |-> NoRatings]
NoFile ==
    [status |-> "missing", parameters |-> DefaultParams, team_ratings |-> NoRatings]

\* the model files handed to the prediction script
GoodFiles ==
    {[status |-> "ok", parameters |-> DefaultParams,
      team_ratings |-> [t \in {"A", "B"} |-> IF t = "A" THEN 15400 ELSE 14600]],
     [status |-> "ok", parameters |-> PlainParams,
      team_ratings |-> [t \in {"A", "B"} |-> DefaultBaseRating]]}

\* no file at model_path, a file that is not JSON, a file whose parameters
\* lack a key
BadFiles ==
    {[status |-> st, parameters |-> DefaultParams, team_ratings |-> NoRatings] :
        st \in {"missing", "malformed", "no_key"}}

\* the variables of parameter_tuning before it runs
TuneIdle ==
    /\ cv = 0
    /\ param_grid = NoGrid
    /\ max_combinations = None
    /\ param_combinations = << >>
    /\ ci = 0
    /\ folds = << >>
    /\ fi = 0
    /\ test_probs = << >>
    /\ test_results = << >>
    /\ cv_scores = << >>
    /\ all_results = << >>
    /\ best_score = Inf
    /\ best_params = << >>

\* the variables of the prediction script before it runs
PredIdle ==
    /\ model_file = NoFile
    /\ predictor = NoPredictor
    /\ updater = NewUpdater(NoRatings, DefaultParams)
    /\ updates_applied = 0
    /\ all_predictions = << >>

InitTrain ==
    /\ script = "train"
    /\ pc = "start"
    /\ db \in Tables
    /\ params \in ParamSets
    /\ data = << >>
    /\ idx = 0
    /\ prev_year = None
    /\ model = NewModel(params)
    /\ raised = "none"
    /\ metrics = NoMetrics
    /\ PredIdle
    /\ TuneIdle

\* main calls update_ratings_with_results and then predict_upcoming_matches;
\* predict_upcoming_matches is also called on its own
InitPredict ==
    /\ \/ script = "update" /\ model_file \in GoodFiles \cup BadFiles
       \/ script = "predict" /\ model_file \in BadFiles
    /\ pc = "start"
    /\ db \in Tables
    /\ params = DefaultParams
    /\ data = << >>
    /\ idx = 0
    /\ prev_year = None
    /\ model = NewModel(params)
    /\ raised = "none"
    /\ metrics = NoMetrics
    /\ predictor = NoPredictor
    /\ updater = NewUpdater(NoRatings, DefaultParams)
    /\ updates_applied = 0
    /\ all_predictions = << >>
    /\ TuneIdle

\* the match days of the histories tuned on, and the score lines a match day
\* can have: all the matches of a day end alike
TuneDates == <<1, 2, 7>>
TuneScoreLines ==
    {t \in [1..3 -> ScoreLines] : t[1] # <<70, 70>> /\ t[3] # <<70, 70>>}

\* every history of exactly n played matches in chronological order
Histories(n) ==
    {[i \in 1..n |->
         LET day == IF i <= c[1] THEN 1 ELSE IF i <= c[2] THEN 2 ELSE 3
         IN  Row(i, TuneDates[day], t[day])] :
        c \in {b \in (0..n) \X (0..n) : b[1] <= b[2]},
        t \in TuneScoreLines}

\* two k_factors, each with two season_carryovers
TuneGrid ==
    [base_rating |-> <<DefaultBaseRating>>, k_factor |-> <<20, 40>>,
     home_advantage |-> <<500>>, margin_factor |-> <<3>>,
     season_carryover |-> <<60, 90>>, max_margin |-> <<120>>]

InitTune ==
    /\ script = "tune"
    /\ pc = "start"
    /\ db \in UNION {Histories(n) : n \in 0..MaxHistory}
    /\ params = DefaultParams
    /\ data = << >>
    /\ idx = 0
    /\ prev_year = None
    /\ model = NewModel(params)
    /\ raised = "none"
    /\ metrics = NoMetrics
    /\ PredIdle
    /\ cv \in 1..MaxFolds
    /\ param_grid = TuneGrid
    /\ max_combinations = None
    /\ param_combinations = << >>
    /\ ci = 0
    /\ folds = << >>
    /\ fi = 0
    /\ test_probs = << >>
    /\ test_results = << >>
    /\ cv_scores = << >>
    /\ all_results = << >>
    /\ best_score = Inf
    /\ best_params = << >>

\* parameter_tuning called with max_combinations below the size of the grid
InitTuneCap ==
    /\ script = "tune"
    /\ pc = "start"
    /\ db \in UNION {Histories(n) : n \in 0..MaxCapHistory}
    /\ params = DefaultParams
    /\ data = << >>
    /\ idx = 0
    /\ prev_year = None
    /\ model = NewModel(params)
    /\ raised = "none"
    /\ metrics = NoMetrics
    /\ PredIdle
    /\ cv \in 2..MaxFolds
    /\ param_grid = TuneGrid
    /\ max_combinations = CapLimit
    /\ param_combinations = << >>
    /\ ci = 0
    /\ folds = << >>
    /\ fi = 0
    /\ test_probs = << >>
    /\ test_results = << >>
    /\ cv_scores = << >>
    /\ all_results = << >>
    /\ best_score = Inf
    /\ best_params = << >>

\* a model object with some ratings, or the predictions and results of
\* matches that were given any probability
InitModel ==
    /\ script = "model"
    /\ pc = "ready"
    /\ db = << >>
    /\ params \in ModelParamSets
    /\ data = << >>
    /\ idx = 0
    /\ prev_year = None
    /\ raised = "none"
    /\ metrics = NoMetrics
    /\ PredIdle
    /\ cv = 0
    /\ param_grid = NoGrid
    /\ max_combinations = None
    /\ param_combinations = << >>
    /\ ci = 0
    /\ folds = << >>
    /\ fi = 0
    /\ cv_scores = << >>
    /\ all_results = << >>
    /\ best_score = Inf
    /\ best_params = << >>
    /\ \/ /\ test_probs = << >>
          /\ test_results = << >>
          /\ \E r \in [{"A", "B"} -> ModelRatings] :
                model = [NewModel(params) EXCEPT !.team_ratings = r]
       \/ /\ params = CHOOSE prm \in ModelParamSets : prm.margin_factor = 0
          /\ \E n \in 1..2 :
                /\ test_probs \in [1..n -> ProbSamples]
                /\ test_results \in [1..n -> {0, Half, One}]
          /\ model = [NewModel(params) EXCEPT !.predictions =
                         [i \in 1..Len(test_probs) |->
                             [actual_result |->
                                  IF test_results[i] = One THEN "home_win"
                                  ELSE IF test_results[i] = Half THEN "draw"
                                  ELSE "away_win",
                              home_win_probability |-> test_probs[i]]]]

\* main past the upcoming predictions: a model file that loads and any table
InitCompleted ==
    /\ script = "completed"
    /\ model_file \in GoodFiles
    /\ pc = "start"
    /\ db \in Tables
    /\ params = DefaultParams
    /\ data = << >>
    /\ idx = 0
    /\ prev_year = None
    /\ model = NewModel(params)
    /\ raised = "none"
    /\ metrics = NoMetrics
    /\ predictor = NoPredictor
    /\ updater = NewUpdater(NoRatings, DefaultParams)
    /\ updates_applied = 0
    /\ all_predictions = << >>
    /\ TuneIdle

Init == InitTrain \/ InitPredict

Next ==
    \/ Fetch \/ TrainBegin \/ TrainStep \/ TrainEnd \/ Evaluate
    \/ UpdLoad \/ UpdQuery \/ UpdStep \/ UpdEnd \/ MainPredict
    \/ PredLoad \/ PredFetch \/ PredStep \/ PredEnd

Spec == Init /\ [][Next]_vars

NextTune ==
    \/ Fetch \/ TuneBegin \/ TuneFold \/ TuneScore \/ TuneFoldEnd
    \/ TuneCombinationEnd \/ TuneEnd

SpecTune == InitTune /\ [][NextTune]_vars

SpecTuneCap == InitTuneCap /\ [][NextTune]_vars

NextModel == CallUpdate \/ CallCarryover \/ CallEvaluate \/ CallFoldLoss

SpecModel == InitModel /\ [][NextModel]_vars

NextCompleted == CompletedQuery \/ CompletedStep \/ CompletedEnd \/ CallAnalyze

SpecCompleted == InitCompleted /\ [][NextCompleted]_vars

(***************************************************************************)
(* Properties.                                                             *)
(***************************************************************************)
Updates(calls) == SelectSeq(calls, LAMBDA c : c.op = "update_ratings")

\* C1: every match update is zero-sum.  Each record update_ratings stores, in
\* training and in SimpleEloUpdater, shows the home rating after the call as
\* the rating before it plus rating_change and the away rating as the rating
\* before it minus the same rating_change, so the two sum to what they summed
\* to before; and the mapping holds these ratings when the call is over.
C1_ZeroSum ==
    /\ \A i \in 1..Len(model.predictions) :
          LET pr == model.predictions[i]
              h == model.rating_history[i]
          IN  /\ h.home_rating = pr.pre_match_home_rating + pr.rating_change
              /\ h.away_rating = pr.pre_match_away_rating - pr.rating_change
              /\ h.home_rating + h.away_rating
                    = pr.pre_match_home_rating + pr.pre_match_away_rating
              /\ i = Len(model.predictions) =>
                    /\ model.team_ratings[pr.home_team] = h.home_rating
                    /\ model.team_ratings[pr.away_team] = h.away_rating
    /\ \A i \in 1..Len(updater.updates) :
          LET u == updater.updates[i]
          IN  /\ u.home_rating_after = u.home_rating_before + u.rating_change
              /\ u.away_rating_after = u.away_rating_before - u.rating_change
              /\ u.home_rating_after + u.away_rating_after
                    = u.home_rating_before + u.away_rating_before
              /\ i = Len(updater.updates) =>
                    /\ updater.team_ratings[u.home_team] = u.home_rating_after
                    /\ updater.team_ratings[u.away_team] = u.away_rating_after

\* two training updates have moved the ratings
C1_Witness ==
    /\ script = "train"
    /\ Len(model.predictions) >= 2
    /\ \A i \in 1..2 : model.predictions[i].rating_change # 0

\* C2: in train_elo_model apply_season_carryover is called exactly once
\* between two consecutive matches whose years differ, whatever the gap, for
\* the new year and before the new year's first match is applied; it is not
\* called between two matches of one year nor before the first match.  The
\* matches applied are the rows of the stream, in its order.
C2_CarryoverOncePerYearChange ==
    LET c == model.calls
        u == Updates(c)
    IN  /\ c # << >> => c[1].op = "update_ratings"
        /\ \A i \in 1..Len(c) :
              c[i].op = "apply_season_carryover" =>
                  /\ 1 < i /\ i < Len(c)
                  /\ c[i - 1].op = "update_ratings"
                  /\ c[i + 1].op = "update_ratings"
                  /\ c[i - 1].year # c[i + 1].year
                  /\ c[i].year = c[i + 1].year
        /\ \A i \in 1..(Len(c) - 1) :
              (c[i].op = "update_ratings" /\ c[i + 1].op = "update_ratings")
                  => c[i].year = c[i + 1].year
        /\ script = "train" /\ pc \in {"loop", "trained"} =>
              /\ Len(u) = idx
              /\ \A i \in 1..idx : u[i].match_id = data[i].match_id

\* a training run with two matches of one year and then a match three years on
C2_Witness ==
    /\ script = "train" /\ pc = "trained"
    /\ \E i \in 2..(Len(model.calls) - 1) :
          /\ model.calls[i].op = "apply_season_carryover"
          /\ model.calls[i + 1].year - model.calls[i - 1].year > 1
    /\ \E i \in 1..(Len(model.calls) - 1) :
          /\ model.calls[i].op = "update_ratings"
          /\ model.calls[i + 1].op = "update_ratings"

C4_ScoringLeavesRatings ==
    (script = "tune" /\ pc = "score") =>
        LET train_data == Iloc(data, folds[fi + 1].train_idx)
            test_data == Iloc(data, folds[fi + 1].test_idx)
            trained == FoldModel(train_data, test_data, params)
        IN  /\ model.team_ratings = trained.team_ratings
            /\ model.calls = trained.calls
            /\ Len(test_probs) = idx
            /\ \A i \in 1..Len(test_probs) :
                  test_probs[i] =
                      calculate_win_probability(trained.team_ratings, params,
                                                test_data[i].home_team,
                                                test_data[i].away_team)
            /\ \A c \in Rows(Updates(model.calls)) :
                  c.match_id \notin {test_data[i].match_id : i \in 1..Len(test_data)}

\* two test matches have been scored after a regression step, the home side
\* one the fold model was never trained on
C4_Witness ==
    /\ script = "tune" /\ pc = "score"
    /\ idx = 2 /\ Len(test_probs) = 2
    /\ model.calls # << >>
    /\ model.calls[Len(model.calls)].op = "apply_season_carryover"
    /\ LET test_data == Iloc(data, folds[fi + 1].test_idx)
       IN  /\ test_data[1].away_team \in DOMAIN model.team_ratings
           /\ test_data[1].home_team \notin DOMAIN model.team_ratings

\* the score recorded for a combination
ScoreOf(combination) ==
    (CHOOSE r \in Rows(all_results) : r.params = combination).log_loss

\* the first combination, in evaluation order, that has the minimum score
FirstMinimum ==
    CHOOSE i \in 1..Len(param_combinations) :
        /\ \A j \in 1..Len(param_combinations) :
              ScoreOf(param_combinations[i]) <= ScoreOf(param_combinations[j])
        /\ \A j \in 1..(i - 1) :
              ScoreOf(param_combinations[j]) > ScoreOf(param_combinations[i])

\* C5: the best_params returned is the evaluated combination with the
\* minimum mean log loss, the first evaluated among those that share it.
C5_BestIsFirstMinimum ==
    (script = "tune" /\ pc \in {"done", "returned"} /\ param_combinations # << >>) =>
        /\ Len(all_results) = Len(param_combinations)
        /\ best_params = <<param_combinations[FirstMinimum]>>
        /\ best_score = ScoreOf(param_combinations[FirstMinimum])

\* the minimum is shared by two combinations, neither the first evaluated
C5_Witness ==
    /\ script = "tune" /\ pc = "returned"
    /\ FirstMinimum > 1
    /\ \E j \in (FirstMinimum + 1)..Len(param_combinations) :
          ScoreOf(param_combinations[j]) = best_score
    /\ best_params = <<param_combinations[FirstMinimum]>>

\* C6: with a model file that is missing, malformed or short of a parameter
\* key, AFLEloPredictor(model_path) hands its caller no predictor object, and
\* the function that constructed it does not return normally.
C6_LoadErrorSurfaced ==
    (script \in {"update", "predict"} /\ model_file.status # "ok")
        => (~predictor.constructed /\ pc # "returned")

\* C7: predict_match leaves the rating of every registered team as it was;
\* the teams it adds to the mapping are the home or the away team of the
\* call, entered at base_rating; and predict_match for the same pairing on
\* the mapping it left returns the same probability.
C7_PredictMatchFrame ==
    [][(script = "predict" /\ pc = "loop" /\ idx' = idx + 1) =>
          LET match == data[idx + 1]
              old == predictor.team_ratings
              new == predictor'.team_ratings
              prediction == all_predictions'[Len(all_predictions')]
          IN  /\ DOMAIN old \subseteq DOMAIN new
              /\ \A t \in DOMAIN old : new[t] = old[t]
              /\ \A t \in DOMAIN new \ DOMAIN old :
                    /\ t \in {match.home_team, match.away_team}
                    /\ new[t] = predictor.params.base_rating
              /\ {match.home_team, match.away_team} \subseteq DOMAIN new
              /\ predict_match(predictor', match.home_team, match.away_team)
                    .prediction.home_win_probability
                  = prediction.home_win_probability]_vars

\* predict_match has registered team C, which the model file did not hold
C7_Witness ==
    /\ script = "predict"
    /\ Len(all_predictions) >= 1
    /\ "C" \in DOMAIN predictor.team_ratings
    /\ "C" \notin DOMAIN model_file.team_ratings
    /\ predictor.team_ratings["A"] # predictor.params.base_rating

\* the winner a prediction record should name
WinnerRule(r) ==
    r.predicted_winner =
        IF r.home_win_probability >= Half THEN r.home_team ELSE r.away_team

\* C8: the predicted winner is the team whose win probability is above 0.5,
\* and the home team when the home-win probability is exactly 0.5, in the
\* records of update_ratings and in those of predict_match.
C8_PredictedWinner ==
    /\ \A i \in 1..Len(model.predictions) : WinnerRule(model.predictions[i])
    /\ \A i \in 1..Len(all_predictions) : WinnerRule(all_predictions[i])

\* C9: match results are applied in chronological order, in train_elo_model
\* and in update_ratings_with_results: no match is applied after a match with
\* a later date.
C9_Chronological ==
    (script \in {"train", "update"} /\ pc = "loop") =>
        \A i, j \in 1..idx : i < j => data[i].match_date <= data[j].match_date

\* the half of C9 that is about train_elo_model
C9_TrainChronological ==
    LET u == Updates(model.calls)
    IN  \A i, j \in 1..Len(u) : i < j => u[i].match_date <= u[j].match_date

\* C10: a row whose home or away score is missing reaches no rating update in
\* train_elo_model or update_ratings_with_results: every update applied is of
\* a row with both scores, no rating turns NaN, and the run does not fail.
C10_MissingScoreNotApplied ==
    /\ \A i \in 1..Len(model.predictions) :
          /\ ~IsNaN(model.predictions[i].hscore)
          /\ ~IsNaN(model.predictions[i].ascore)
    /\ \A t \in DOMAIN model.team_ratings : ~IsNaN(model.team_ratings[t])
    /\ \A i \in 1..Len(updater.updates) :
          /\ ~IsNaN(updater.updates[i].hscore)
          /\ ~IsNaN(updater.updates[i].ascore)
    /\ \A t \in DOMAIN updater.team_ratings : ~IsNaN(updater.team_ratings[t])
    /\ (script = "train" \/ model_file.status = "ok") => raised = "none"
    /\ script = "train" /\ pc \in {"loop", "trained"} =>
          \A i \in 1..Len(data) : HasScores(data[i])

\* a training run over a table that holds a row without scores before a
\* played match has ended, the played match applied
C10_Witness ==
    /\ script = "train" /\ pc = "trained"
    /\ Len(db) >= 2
    /\ ~HasScores(db[1])
    /\ Len(model.predictions) >= 1

\* C11: an empty match history is not fatal for the search: parameter_tuning
\* on a history without matches raises no error (cv being one TimeSeriesSplit
\* accepts).
C11_EmptyHistoryNotFatal ==
    (script = "tune" /\ Len(db) = 0 /\ cv >= 2) => raised = "none"

\* the half of C11 that is about training: train_elo_model on an empty
\* history returns a model that evaluate_model gives accuracy 0, Brier score
\* 1.0 and an infinite log loss
C11_TrainEmptyEvaluates ==
    (script = "train" /\ pc = "evaluated" /\ data = << >>) =>
        /\ metrics = [accuracy |-> 0, brier_score |-> One, log_loss |-> Inf]
        /\ model.team_ratings = NoRatings
        /\ raised = "none"

\* the first test match of fold k is of another season than the last
\* training match
SeasonDiffers(k) ==
    LET train_data == Iloc(data, folds[k].train_idx)
        test_data == Iloc(data, folds[k].test_idx)
    IN  test_data[1].year # train_data[Len(train_data)].year

\* C12: when the test matches of a fold are scored, the fold model has been
\* through the calls of its training and then through exactly one more
\* apply_season_carryover if the first test match's season differs from the
\* last training match's season, and through no further call if the seasons
\* are equal.
C12_FoldCarryover ==
    (script = "tune" /\ pc = "score") =>
        LET train_data == Iloc(data, folds[fi + 1].train_idx)
            test_data == Iloc(data, folds[fi + 1].test_idx)
            trained == train_elo_model(train_data, params)
        IN  IF SeasonDiffers(fi + 1)
            THEN /\ model.calls =
                       Append(trained.calls,
                              [op |-> "apply_season_carryover", match_id |-> 0,
                               match_date |-> 0, year |-> test_data[1].year])
                 /\ model.team_ratings =
                       [t \in DOMAIN trained.team_ratings |->
                           Regress(params, trained.team_ratings[t])]
            ELSE /\ model.calls = trained.calls
                 /\ model.team_ratings = trained.team_ratings

\* the second fold is scored after a regression that moved a rating, the
\* first fold was scored without one
C12_Witness ==
    /\ script = "tune" /\ pc = "score" /\ fi = 1 /\ idx >= 1
    /\ SeasonDiffers(2)
    /\ ~SeasonDiffers(1)
    /\ model.calls[Len(model.calls)].op = "apply_season_carryover"
    /\ model.team_ratings # train_elo_model(Iloc(data, folds[2].train_idx), params).team_ratings

\* C13: the combination parameter_tuning selects is, among the evaluated
\* combinations with the minimal mean log loss, the earliest in the nested
\* loop order of the grid, also when max_combinations capped the list.
C13_GridOrderTieBreak ==
    (script = "tune" /\ pc = "returned" /\ param_combinations # << >>) =>
        LET grid == GridCombinations(param_grid)
            minimal == {i \in 1..Len(grid) :
                           /\ \E j \in 1..Len(param_combinations) :
                                 param_combinations[j] = grid[i]
                           /\ ScoreOf(grid[i]) = best_score}
            earliest == CHOOSE i \in minimal : \A j \in minimal : i <= j
        IN  best_params = <<grid[earliest]>>

\* C14: apply_season_carryover replaces the rating r of every registered team
\* by base_rating + season_carryover * (r - base_rating) and registers no
\* team: with season_carryover 1.0 no rating changes, with 0.0 every rating
\* becomes base_rating, and 1700 with base 1500 and carryover 0.75 becomes 1650.
C14_CarryoverFormula ==
    [][(/\ script = "model"
        /\ Len(model'.calls) = Len(model.calls) + 1
        /\ model'.calls[Len(model'.calls)].op = "apply_season_carryover") =>
           LET base == model.params.base_rating
               carry == model.params.season_carryover
           IN  /\ DOMAIN model'.team_ratings = DOMAIN model.team_ratings
               /\ \A t \in DOMAIN model.team_ratings :
                     /\ model'.team_ratings[t] =
                           base + RoundDiv(carry * (model.team_ratings[t] - base), 100)
                     /\ carry = 100 => model'.team_ratings[t] = model.team_ratings[t]
                     /\ carry = 0 => model'.team_ratings[t] = base
                     /\ (carry = 75 /\ model.team_ratings[t] = 17000 /\ base = 15000)
                           => model'.team_ratings[t] = 16500]_vars

\* a rating of 1700 has been regressed to 1650, one of 1300 to 1350
C14_Witness ==
    /\ script = "model"
    /\ Len(model.calls) = 1
    /\ model.calls[1].op = "apply_season_carryover"
    /\ model.params.season_carryover = 75
    /\ model.team_ratings = [t \in {"A", "B"} |-> IF t = "A" THEN 16500 ELSE 13500]

\* the rating_change update_ratings would compute in the model state m for a
\* match of A hosting B that ends with the given scores
ChangeFor(m, scores) ==
    LET updated == update_ratings(m, Row(Len(m.calls) + 1, 1, scores))
    IN  updated.predictions[Len(updated.predictions)].rating_change

\* C15: from the same pre-match ratings and for the same result direction,
\* the magnitude of rating_change does not decrease when the absolute margin
\* grows, and is the same for all absolute margins of max_margin or more.
C15_MarginMonotone ==
    (script = "model" /\ pc = "ready" /\ test_probs = << >>) =>
        \A s1, s2 \in ModelScoreLines :
            LET margin1 == s1[1] - s1[2]
                margin2 == s2[1] - s2[2]
            IN  (/\ Sign(margin1) = Sign(margin2)
                 /\ margin1 # 0
                 /\ Abs(margin1) <= Abs(margin2)) =>
                    /\ Abs(ChangeFor(model, s1)) <= Abs(ChangeFor(model, s2))
                    /\ Abs(margin1) >= model.params.max_margin =>
                          ChangeFor(model, s1) = ChangeFor(model, s2)

\* update_ratings has applied a result beyond max_margin: the change is the
\* one of a margin of max_margin, and larger than the one of a margin of 1
C15_Witness ==
    /\ script = "model"
    /\ model.params.margin_factor > 0
    /\ \E i \in 1..Len(model.predictions) :
          LET r == model.predictions[i]
              capped == RatingChange(model.params, r.home_win_probability,
                                     50 + model.params.max_margin, 50)
              narrow == RatingChange(model.params, r.home_win_probability, 51, 50)
          IN  /\ r.margin > model.params.max_margin
              /\ r.rating_change = capped
              /\ 0 < narrow /\ narrow < r.rating_change

\* C16 as stated: for the parameters of the model at hand there are pre-match
\* ratings and a home loss, the home-win probability below 0.5, for which the
\* rating_change applied to the home team is positive.
C16_PositiveAfterLoss ==
    (script = "model" /\ pc = "ready" /\ test_probs = << >>) =>
        \E home_rating, away_rating \in ModelRatings :
            \E scores \in ModelScoreLines :
                LET home_win_prob ==
                        WinProbability(home_rating, away_rating,
                                       model.params.home_advantage)
                IN  /\ scores[1] < scores[2]
                    /\ home_win_prob < Half
                    /\ RatingChange(model.params, home_win_prob,
                                    scores[1], scores[2]) > 0

\* C16: whenever the home team loses, the rating_change update_ratings
\* applies to it is not positive, however narrow the loss and however low
\* the home-win probability was; a home win never costs the home team.
C16_NoGainAfterLoss ==
    script = "model" =>
        \A i \in 1..Len(model.calls) :
            model.calls[i].op = "update_ratings" =>
                LET r == CHOOSE q \in Rows(model.predictions) :
                             q.match_id = model.calls[i].match_id
                IN  /\ r.hscore < r.ascore => r.rating_change <= 0
                    /\ r.hscore > r.ascore => r.rating_change >= 0

\* a home team rated 400 points below its opponent has lost by one point and
\* lost rating
C16_Witness ==
    /\ script = "model"
    /\ test_probs = << >>
    /\ \E i \in 1..Len(model.predictions) :
          LET r == model.predictions[i]
          IN  /\ r.margin = -1
              /\ r.pre_match_home_rating = 13000
              /\ r.pre_match_away_rating = 17000
              /\ r.home_win_probability < 1000
              /\ r.rating_change < 0

\* C17: the log-loss is computed from the probability clamped to
\* [0.001, 0.999], in evaluate_model and in the fold scoring of
\* parameter_tuning alike, so it is finite for every probability in [0, 1],
\* 0 and 1 included, and every outcome.
C17_LogLossFinite ==
    script = "model" =>
        /\ \A i \in 1..Len(test_probs) :
              /\ Clip(test_probs[i]) \in 10..9990
              /\ MatchLoss(test_results[i], Clip(test_probs[i])) \in 0..NegLog(10)
        /\ cv_scores # << >> =>
              /\ cv_scores[1] < Inf
              /\ cv_scores[1] \in 0..NegLog(10)
        /\ (pc = "evaluated" /\ model.predictions # << >>) =>
              /\ metrics.log_loss < Inf
              /\ metrics.log_loss \in 0..NegLog(10)
              /\ test_probs # << >> => metrics.log_loss = FoldLoss(test_results, test_probs)

\* a home win given probability 0 and a home loss given probability 1 were
\* scored both ways, at the loss of the clamped probability
C17_Witness ==
    /\ script = "model"
    /\ test_probs = <<0, One>>
    /\ test_results = <<One, 0>>
    /\ pc = "evaluated"
    /\ metrics.log_loss = NegLog(10)
    /\ cv_scores = <<NegLog(10)>>

\* C18: the accuracy evaluate_model reports equals the fraction of the
\* prediction records whose 'correct' flag is true.
C18_AccuracyIsCorrectFraction ==
    (script = "train" /\ pc = "evaluated" /\ model.predictions # << >>) =>
        LET n == Len(model.predictions)
            flagged == {i \in 1..n : model.predictions[i].correct}
        IN  metrics.accuracy = RoundDiv(One * Cardinality(flagged), n)

\* the rating_history entries owed for the first n calls on the model m: one
\* for a match update, one per registered team for a season carryover
RECURSIVE LedgerEntriesOwed(_, _)
LedgerEntriesOwed(m, n) ==
    IF n = 0 THEN 0
    ELSE LedgerEntriesOwed(m, n - 1)
         + (IF m.calls[n].op = "update_ratings" THEN 1
            ELSE Cardinality(DOMAIN m.yearly_ratings[<<m.calls[n].year, "start">>]))

\* C19: every mutation of the ratings is recorded in rating_history: each
\* match update appends one entry and each season carryover appends an entry
\* per registered team.
C19_EveryMutationRecorded ==
    script = "train" =>
        Len(model.rating_history) = LedgerEntriesOwed(model, Len(model.calls))

\* the model train_elo_model holds when it reaches the i-th row of data:
\* trained on rows 1..i-1, regressed if row i opens a new season
BeforeMatch(i) ==
    LET r == TrainLoop(initialize_ratings(NewModel(params), AllTeams(data)),
                       None, SubSeq(data, 1, i - 1))
    IN  IF r.prev_year # None /\ data[i].year # r.prev_year
        THEN apply_season_carryover(save_yearly_ratings(r.model, r.prev_year),
                                    data[i].year)
        ELSE r.model

\* C20: the prediction record of a match holds the pre-match state: the
\* ratings and the home-win probability recorded for the i-th match of a
\* training run are those of the model trained on matches 1..i-1 and the
\* regressions between them, and the pre-match rating plus (home) or minus
\* (away) rating_change is the post-match rating written to rating_history.
C20_PredictionHoldsPreMatchState ==
    (script = "train" /\ pc \in {"loop", "trained", "evaluated"}) =>
        /\ Len(model.predictions) = idx
        /\ Len(model.rating_history) = idx
        /\ \A i \in 1..idx :
              LET before == BeforeMatch(i)
                  r == model.predictions[i]
                  h == model.rating_history[i]
              IN  /\ r.match_id = data[i].match_id
                  /\ h.match_id = data[i].match_id
                  /\ r.pre_match_home_rating = before.team_ratings[r.home_team]
                  /\ r.pre_match_away_rating = before.team_ratings[r.away_team]
                  /\ r.home_win_probability =
                         calculate_win_probability(before.team_ratings, params,
                                                   r.home_team, r.away_team)
                  /\ FAdd(r.pre_match_home_rating, r.rating_change) = h.home_rating
                  /\ FSub(r.pre_match_away_rating, r.rating_change) = h.away_rating

\* a team that played in one season plays again in the next: its recorded
\* pre-match rating is its regressed rating, neither the base rating nor the
\* rating its earlier match left, and the match changes it again
C20_Witness ==
    /\ script = "train" /\ pc = "trained"
    /\ \E i \in 1..Len(model.predictions) : \E j \in 1..(i - 1) :
          LET r == model.predictions[i]
              h == model.rating_history[j]
          IN  /\ r.year # h.year
              /\ r.home_team = h.home_team
              /\ r.pre_match_home_rating # params.base_rating
              /\ r.pre_match_home_rating # h.home_rating
              /\ r.rating_change # 0
              /\ model.rating_history[i].home_rating # r.pre_match_home_rating

\* the score of the cell (prm, fold k) computed on its own: a model trained
\* from scratch on the fold's training rows, scored on its test rows
CellScore(prm, k) ==
    LET fold == TimeSeriesSplit(Len(data), cv)[k]
        train_data == Iloc(data, fold.train_idx)
        test_data == Iloc(data, fold.test_idx)
        m == FoldModel(train_data, test_data, prm)
        scored == [i \in 1..Len(test_data) |-> ScoreMatch(m, test_data[i])]
    IN  FoldLoss([i \in 1..Len(test_data) |-> scored[i].result],
                 [i \in 1..Len(test_data) |-> scored[i].prob])

\* C21: each (candidate, fold) cell of parameter_tuning trains a fresh model:
\* the fold score of a cell is determined by the candidate's parameters and
\* the fold's training and test rows only, whatever cells were evaluated
\* before it and in whatever order the candidates are taken.
C21_CellsIndependent ==
    (script = "tune" /\ raised = "none") =>
        /\ \A j \in 1..Len(all_results) :
              /\ Len(all_results[j].cv_scores) = cv
              /\ \A k \in 1..cv :
                    all_results[j].cv_scores[k] = CellScore(all_results[j].params, k)
        /\ pc \in {"combination", "score", "scored"} =>
              \A k \in 1..fi : cv_scores[k] = CellScore(params, k)

\* the second candidate of a shuffled list was scored on two folds after the
\* first one, and its scores differ across the folds and from the first
\* candidate's
C21_Witness ==
    /\ script = "tune" /\ pc = "returned"
    /\ Len(all_results) = 2
    /\ cv = 2
    /\ param_combinations[1] # GridCombinations(param_grid)[1]
    /\ \E j \in 1..2 :
          /\ all_results[j].params = param_combinations[2]
          /\ all_results[j].cv_scores[1] # all_results[j].cv_scores[2]
          /\ \E k \in 1..2 : all_results[j].cv_scores[k] # all_results[3 - j].cv_scores[k]

\* C22: the result of parameter_tuning holds exactly one all_results entry
\* per evaluated candidate, each with one score per fold and their mean;
\* all_results is in ascending order of mean log-loss and its first entry
\* carries the returned best_params and best_score.
C22_RankedResults ==
    (script = "tune" /\ pc = "returned") =>
        /\ Len(all_results) = Len(param_combinations)
        /\ \A i \in 1..Len(param_combinations) :
              Cardinality({j \in 1..Len(all_results) :
                              all_results[j].params = param_combinations[i]}) = 1
        /\ \A j \in 1..Len(all_results) :
              /\ Len(all_results[j].cv_scores) = cv
              /\ all_results[j].log_loss = Mean(all_results[j].cv_scores)
        /\ \A i, j \in 1..Len(all_results) :
              i < j => all_results[i].log_loss <= all_results[j].log_loss
        /\ all_results # << >> =>
              /\ best_params = <<all_results[1].params>>
              /\ best_score = all_results[1].log_loss

\* four candidates were scored on two folds each and the best of them was
\* not the first one evaluated
C22_Witness ==
    /\ script = "tune" /\ pc = "returned"
    /\ Len(all_results) = 4
    /\ cv = 2
    /\ all_results[1].params # param_combinations[1]
    /\ all_results[1].log_loss < all_results[4].log_loss
    /\ all_results[1].cv_scores[1] # all_results[1].cv_scores[2]
    /\ best_params = <<all_results[1].params>>

\* the teams of the mapping new that the mapping old does not hold
Entered(old, new) == DOMAIN new \ DOMAIN old

\* update_ratings and apply_season_carryover called on the model m keep every
\* team and enter the unseen teams of the match at base_rating
ModelKeepsTeams(m) ==
    /\ DOMAIN apply_season_carryover(m, 2).team_ratings = DOMAIN m.team_ratings
    /\ \A match_date \in MatchDates : \A scores \in ScoreLines :
          LET match == Row(Len(m.predictions) + 1, match_date, scores)
              updated == update_ratings(m, match)
              r == updated.predictions[Len(updated.predictions)]
          IN  /\ DOMAIN updated.team_ratings =
                     DOMAIN m.team_ratings \cup {match.home_team, match.away_team}
              /\ match.home_team \notin DOMAIN m.team_ratings =>
                     r.pre_match_home_rating = m.params.base_rating
              /\ match.away_team \notin DOMAIN m.team_ratings =>
                     r.pre_match_away_rating = m.params.base_rating

\* C23: the set of registered teams never shrinks: no update_ratings,
\* apply_season_carryover, predict_match or update_ratings_with_results
\* removes a team's entry, and a team seen for the first time is entered at
\* exactly base_rating before it is used.
C23_TeamsNeverShrink ==
    [][/\ DOMAIN model.team_ratings \subseteq DOMAIN model'.team_ratings
       /\ DOMAIN predictor.team_ratings \subseteq DOMAIN predictor'.team_ratings
       /\ DOMAIN updater.team_ratings \subseteq DOMAIN updater'.team_ratings
       /\ ModelKeepsTeams(model)
       /\ (script = "predict" /\ pc = "loop" /\ idx' = idx + 1) =>
             LET r == all_predictions'[Len(all_predictions')]
             IN  \A t \in Entered(predictor.team_ratings, predictor'.team_ratings) :
                    /\ t \in {r.home_team, r.away_team}
                    /\ predictor'.team_ratings[t] = predictor.params.base_rating
                    /\ t = r.home_team => r.home_rating = predictor.params.base_rating
                    /\ t = r.away_team => r.away_rating = predictor.params.base_rating
       /\ (script = "update" /\ pc = "loop" /\ idx' = idx + 1) =>
             \A t \in Entered(updater.team_ratings, updater'.team_ratings) :
                LET u == updater'.updates[Len(updater'.updates)]
                IN  /\ t \in {u.home_team, u.away_team}
                    /\ t = u.home_team => u.home_rating_before = updater.params.base_rating
                    /\ t = u.away_team => u.away_rating_before = updater.params.base_rating
      ]_vars

\* team C, absent from the model file, was entered by a prediction at
\* base_rating, and A and B kept their entries
C23_Witness ==
    /\ script = "predict" /\ pc = "returned"
    /\ DOMAIN model_file.team_ratings = {"A", "B"}
    /\ DOMAIN predictor.team_ratings = {"A", "B", "C"}
    /\ predictor.team_ratings["C"] = predictor.params.base_rating
    /\ predictor.team_ratings["A"] # predictor.params.base_rating
    /\ \E i \in 1..Len(all_predictions) :
          /\ all_predictions[i].home_team = "C"
          /\ all_predictions[i].home_rating = predictor.params.base_rating

\* the run of update_ratings_with_results in steps ends as the call does
UpdLoopAgrees ==
    (script = "update" /\ pc = "loop" /\ idx = Len(data)) =>
        /\ UpdLoop(NewUpdater(predictor.team_ratings, predictor.params), 0, data)
               = [updater |-> updater, updates_applied |-> updates_applied]
        /\ data = RecentMatchesQuery(db)
        /\ predictor = NewPredictor(model_file)

\* C24: a second run of update_ratings_with_results against the unchanged
\* database and the model file the first run wrote leaves the persisted team
\* ratings as the first run left them: a completed match's result is applied
\* to the persisted ratings at most once.
C24_SecondRunChangesNothing ==
    (script = "update" /\ pc = "returned" /\ raised = "none") =>
        update_ratings_with_results(db, model_file).model_file.team_ratings
            = model_file.team_ratings

\* the ratings the updater holds when the loop reaches the i-th recent match
UpdaterBefore(i) ==
    UpdLoop(NewUpdater(predictor.team_ratings, predictor.params), 0,
            SubSeq(data, 1, i - 1)).updater.team_ratings

\* C25: in update_ratings_with_results, when two consecutive applied matches
\* differ in season year, the ratings are regressed toward base_rating by
\* season_carryover once before the first match of the new season is applied,
\* as train_elo_model does.
C25_UpdaterCarryover ==
    (script = "update" /\ pc = "loop") =>
        \A i \in 2..Len(updater.updates) :
            data[i].year # data[i - 1].year =>
                LET u == updater.updates[i]
                    before == UpdaterBefore(i)
                    prm == updater.params
                IN  /\ u.home_rating_before =
                           Regress(prm, Get(before, u.home_team, prm.base_rating))
                    /\ u.away_rating_before =
                           Regress(prm, Get(before, u.away_team, prm.base_rating))

\* the team that won the match of the record r, if one did
WonBy(r, team) ==
    \/ r.actual_result = "home_win" /\ team = r.home_team
    \/ r.actual_result = "away_win" /\ team = r.away_team

\* C26: in the analysis of the completed matches, by main and by
\* analyze_prediction_accuracy, a prediction is flagged correct exactly when
\* the predicted winner is the team that won the match.
C26_CorrectIffWinnerPredicted ==
    script = "completed" =>
        \A i \in 1..Len(all_predictions) :
            LET r == all_predictions[i]
            IN  IF pc = "analysed"
                THEN r.correct_prediction <=> WonBy(r, r.predicted_winner)
                ELSE r.correct <=> WonBy(r, r.predicted_winner)

\* the sum of the ratings of a mapping
RECURSIVE RatingSum(_, _)
RatingSum(team_ratings, teams) ==
    IF teams = {} THEN 0
    ELSE LET t == CHOOSE x \in teams : TRUE
         IN  team_ratings[t] + RatingSum(team_ratings, teams \ {t})

\* the teams of the first n training rows
Played(n) == {data[i].home_team : i \in 1..n} \cup {data[i].away_team : i \in 1..n}

\* C27: during train_elo_model, after every processed match and every season
\* regression, the ratings of the registered teams sum to the number of
\* registered teams times base_rating, and a team that has not yet played
\* has rating exactly base_rating.
C27_RatingSumPreserved ==
    (script = "train" /\ pc \in {"loop", "trained", "evaluated"}) =>
        LET registered == DOMAIN model.team_ratings
        IN  /\ RatingSum(model.team_ratings, registered)
                   = Cardinality(registered) * params.base_rating
            /\ \A t \in registered \ Played(idx) :
                   model.team_ratings[t] = params.base_rating

\* two seasons were played by A and B with a regression of a quarter or more
\* between them, and C, registered for a later match, has not played yet
C27_Witness ==
    /\ script = "train" /\ pc = "loop" /\ idx = 2
    /\ params.season_carryover < 100
    /\ DOMAIN model.team_ratings = {"A", "B", "C"}
    /\ \E i \in 1..Len(model.calls) : model.calls[i].op = "apply_season_carryover"
    /\ model.team_ratings["A"] # params.base_rating
    /\ model.team_ratings["A"] + model.team_ratings["B"] = 2 * params.base_rating
    /\ model.team_ratings["C"] = params.base_rating
    /\ "C" \notin Played(idx)

\* SimpleEloUpdater.update_ratings called with a draw of A hosting B on the
\* ratings and parameters of the model m
UpdaterDraw(m) ==
    updater_update_ratings(NewUpdater(m.team_ratings, m.params), "A", "B", 50, 50)

\* C28: when margin_factor > 0, update_ratings for a drawn match gives
\* rating_change = 0 and leaves both ratings as they were, whatever the
\* pre-match ratings and the home advantage; when margin_factor = 0 a draw
\* between teams whose home-win probability is not 0.5 moves the ratings.
C28_DrawAndMarginFactor ==
    (script = "model" /\ test_probs = << >>) =>
        /\ \A i \in 1..Len(model.predictions) :
              LET r == model.predictions[i]
                  h == model.rating_history[i]
              IN  r.hscore = r.ascore =>
                     /\ model.params.margin_factor > 0 =>
                           /\ r.rating_change = 0
                           /\ h.home_rating = r.pre_match_home_rating
                           /\ h.away_rating = r.pre_match_away_rating
                     /\ (model.params.margin_factor = 0
                            /\ r.home_win_probability # Half) =>
                           /\ r.rating_change # 0
                           /\ (r.rating_change > 0) <=> (r.home_win_probability < Half)
                           /\ h.home_rating # r.pre_match_home_rating
                           /\ h.away_rating # r.pre_match_away_rating
        /\ pc = "ready" =>
              LET u == UpdaterDraw(model)
                  p == calculate_win_probability(model.team_ratings, model.params,
                                                 "A", "B")
              IN  /\ model.params.margin_factor > 0 =>
                        /\ u.rating_change = 0
                        /\ u.updater.team_ratings = model.team_ratings
                  /\ (model.params.margin_factor = 0 /\ p # Half) =>
                        /\ u.rating_change # 0
                        /\ u.updater.team_ratings # model.team_ratings

\* with margin_factor 0.3 and a home advantage of 50 a draw between A at 1700
\* and B at 1300 was stored with no change of rating
C28_Witness ==
    /\ script = "model" /\ test_probs = << >>
    /\ \E i \in 1..Len(model.predictions) :
          LET r == model.predictions[i]
          IN  /\ r.hscore = r.ascore
              /\ r.pre_match_home_rating = 17000
              /\ r.pre_match_away_rating = 13000
              /\ r.home_win_probability > Half
              /\ model.params.margin_factor > 0
              /\ model.params.home_advantage > 0
              /\ r.rating_change = 0
              /\ model.team_ratings["A"] = 17000

=============================================================================
